---- MODULE Spec2Model ----
(***************************************************************************)
(* joincap: merge several pcap files into one, gracefully (src/main.go).   *)
(*                                                                         *)
(* The model follows joincap(), initHeapWithInputFiles(), readNext() and   *)
(* write().  One step of the model is one iteration of a loop of the       *)
(* program: one input file opened, one ReadPacketData() call together with *)
(* what readNext() and its caller do with the result, one heap.Pop with    *)
(* the write that follows it.  The content of the input files is the       *)
(* environment: each ReadPacketData() call draws its result from a set of  *)
(* outcomes, and input[f] logs what file f returned and what readNext did  *)
(* with it.                                                                *)
(*                                                                         *)
(* Time is counted in units of one hour, so that oneHour is 1 and the      *)
(* tolerance rule `timestamp+oneHour < previousTimestamp` keeps its strict *)
(* comparison: a record exactly one unit early is kept, a record two units *)
(* early is dropped.  The timestamps of a pcap file are never negative and *)
(* stay far below 2^63 - oneHour, so the sum never overflows.              *)
(*                                                                         *)
(* eng is the state of the run of the program.  ref is the state of a      *)
(* second run of the same program, on the input files that remain when the *)
(* files the first run skips are taken away; it moves in lock step with    *)
(* the first run and sync tells whether the two still take the same        *)
(* branches.  The second run starts in a fresh process (previousTimestamp  *)
(* is 0) and its writer never fails.  alg is the state of the steady-state *)
(* algorithm of the design (pop, emit, pull while the record is <= the     *)
(* threshold or the heap was empty at the pop), run side by side with the  *)
(* program on the same files.                                              *)
(***************************************************************************)
EXTENDS Integers, Sequences, FiniteSets, TLC

\* ------------------------------------------------------------------ bounds
MaxFiles == 2          \* input files given on the command line
MaxReads == 3          \* ReadPacketData() results other than io.EOF, over all files
MaxTs    == 2          \* timestamps range over 0..MaxTs

\* --------------------------------------------------------- program constants
\* int64(time.Nanosecond * time.Hour), in the model's unit of time (one hour)
oneHour          == 1
LinkTypeNull     == 0
LinkTypeEthernet == 1
\* 113 (LINUX_SLL) stands for the link types the program does not name
LinkTypes        == {LinkTypeNull, LinkTypeEthernet, 113}

Files == 1..MaxFiles

VARIABLES
  nFiles,            \* len(inputFilePaths)
  pc,                \* position in joincap()
  fi,                \* index of the file the init loop is at
  opened,            \* files os.Open returned a handle for
  closes,            \* inputFile.Close() calls per file
  readers,           \* files pcapgo.NewReader returned a reader for
  readerLinkType,    \* reader.LinkType() of those files
  input,             \* per file: what ReadPacketData() returned, and its fate
  eof,               \* files whose reader has returned io.EOF
  staged,            \* files whose first packet was pushed by the init loop
  eng,               \* the run: heap, previousTimestamp, linkType, output
  ref,               \* the run on the remaining files only
  sync,              \* ref has taken the branches eng took
  alg                \* the design's steady-state algorithm, side by side

vars == <<nFiles, pc, fi, opened, closes, readers, readerLinkType, input, eof, staged,
          eng, ref, sync, alg>>

\* ----------------------------------------------------------------- records
\* What one ReadPacketData() call returns: io.EOF, another error, or a
\* packet with its capture timestamp and len(data).
EndOfFile == [kind |-> "eof", ts |-> 0, len |-> 0]
ReadError == [kind |-> "err", ts |-> 0, len |-> 0]
Outcomes ==
  {EndOfFile, ReadError}
    \cup {[kind |-> "pkt", ts |-> t, len |-> l] : t \in 0..MaxTs, l \in 0..1}

\* The outcomes of the runs that are about the link type: the records all
\* carry timestamp 0.
LinkOutcomes ==
  {EndOfFile, ReadError} \cup {[kind |-> "pkt", ts |-> 0, len |-> l] : l \in 0..1}

\* minheap.Packet as readNext builds it from record r of file f; idx is the
\* position of the record in its file and tells the packets of a file apart.
Packet(f, r) ==
  [Timestamp |-> r.ts, Data |-> r.len, InputFile |-> f, idx |-> Len(input[f]) + 1]

NoPacket == [Timestamp |-> 0, Data |-> 0, InputFile |-> 0, idx |-> 0]

RECURSIVE SumLen(_)
SumLen(n) == IF n = 0 THEN 0 ELSE Len(input[n]) + SumLen(n - 1)
\* the records read so far, over all files
NReads == SumLen(MaxFiles)

\* ------------------------------------------------------------------- heap
\* minheap.PacketHeap under container/heap: a min-heap keyed by Timestamp.
\* Which of several packets with the least timestamp comes out first is left
\* open, so Pop may take any of them.
HeapPush(h, p) == h \cup {p}
HeapMin(h) == {p \in h : \A q \in h : p.Timestamp <= q.Timestamp}
HeapPop(h, p) == h \ {p}
HeapTop(h) == (CHOOSE p \in HeapMin(h) : TRUE).Timestamp

\* ---------------------------------------------------------------- readNext
\* readNext without the tolerance rule.
readNextNoTolerance(r, isInit, prev) ==
  IF r.kind = "eof" THEN "eof"
  ELSE IF r.kind = "err" THEN "err"
  ELSE IF r.len = 0 THEN "empty"
  ELSE "ret"

\* readNext with <= for < in the tolerance rule.
readNextLE(r, isInit, prev) ==
  IF r.kind = "eof" THEN "eof"
  ELSE IF r.kind = "err" THEN "err"
  ELSE IF ~isInit /\ r.ts + oneHour <= prev THEN "late"
  ELSE IF r.len = 0 THEN "empty"
  ELSE "ret"

\* readNext without the check of len(data).
readNextKeepEmpty(r, isInit, prev) ==
  IF r.kind = "eof" THEN "eof"
  ELSE IF r.kind = "err" THEN "err"
  ELSE IF ~isInit /\ r.ts + oneHour < prev THEN "late"
  ELSE "ret"

\* readNext applying the tolerance rule to the first read of a file too.
readNextNoInit(r, isInit, prev) ==
  IF r.kind = "eof" THEN "eof"
  ELSE IF r.kind = "err" THEN "err"
  ELSE IF r.ts + oneHour < prev THEN "late"
  ELSE IF r.len = 0 THEN "empty"
  ELSE "ret"

\* One iteration of readNext's loop on the result r of ReadPacketData():
\* "eof" returns io.EOF (after closing the file), "ret" returns the packet,
\* "err", "late" and "empty" skip the record and continue the loop.
readNext(r, isInit, prev) ==
  IF r.kind = "eof" THEN "eof"
  ELSE IF r.kind = "err" THEN "err"
  ELSE IF ~isInit /\ r.ts + oneHour < prev THEN "late"
  ELSE IF r.len = 0 THEN "empty"
  ELSE "ret"

\* The entry of input[f] for result r.
Logged(r, isInit, prev) ==
  [kind |-> r.kind, ts |-> r.ts, len |-> r.len, init |-> isInit, prev |-> prev,
   fate |-> readNext(r, isInit, prev)]

\* ------------------------------------------------------------ engine steps
\* The link type after a reader declaring lt was built.
resolveLinkType(cur, lt) ==
  IF cur = LinkTypeNull THEN lt
  ELSE IF cur # lt THEN LinkTypeEthernet
  ELSE cur

\* previousTimestamp after the init loop pushed a first packet with timestamp ts.
initBaseline(prev, ts) ==
  IF prev = 0 THEN ts
  ELSE IF ts < prev THEN ts
  ELSE prev

setLinkType(e, lt) == [e EXCEPT !.linkType = resolveLinkType(@, lt)]

pushFirst(e, p) ==
  [e EXCEPT !.minTimeHeap = HeapPush(@, p),
            !.previousTimestamp = initBaseline(@, p.Timestamp)]

\* initStep without the `continue` after a readNext that ended in io.EOF.
initStepNoContinue(e, v, p) ==
  IF v \in {"ret", "eof"} THEN pushFirst(e, p) ELSE e

\* What the init loop does with the engine once readNext has ended as v: on
\* an error it continues with the next file, else it pushes the packet.
initStep(e, v, p) == IF v = "ret" THEN pushFirst(e, p) ELSE e

writeFileHeader(e) == [e EXCEPT !.header = Append(@, e.linkType)]

\* write without the assignment to previousTimestamp.
writeKeepsPrev(e, p, err) ==
  [e EXCEPT !.written = Append(@, p), !.writeErr = err]

\* write keeping the highest timestamp written.
writeKeepsHighest(e, p, err) ==
  [e EXCEPT !.written = Append(@, p),
            !.writeErr = err,
            !.previousTimestamp = IF p.Timestamp > @ THEN p.Timestamp ELSE @]

\* write returning at a WritePacket error.
writeErrReturns(e, p, err) ==
  [e EXCEPT !.written = Append(@, p),
            !.writeErr = err,
            !.previousTimestamp = IF err THEN @ ELSE p.Timestamp]

\* write(writer, p, verbose) where WritePacket returns an error iff err: p is
\* handed to the writer and becomes the previous packet either way.
write(e, p, err) ==
  [e EXCEPT !.written = Append(@, p),
            !.writeErr = err,
            !.previousTimestamp = p.Timestamp]

\* popEarliest without the write of the popped packet.
popEarliestNoWrite(e, p, err) ==
  LET h == HeapPop(e.minTimeHeap, p)
  IN  [e EXCEPT
         !.minTimeHeap = h,
         !.earliestPacket = p,
         !.earliestHeapTime = IF h # {} THEN HeapTop(h) ELSE 0]

\* The head of the outer loop's body: pop the earliest packet p, write it,
\* take the threshold from the top of the heap.
popEarliest(e, p, err) ==
  LET h == HeapPop(e.minTimeHeap, p)
  IN  [write(e, p, err) EXCEPT
         !.minTimeHeap = h,
         !.earliestPacket = p,
         !.earliestHeapTime = IF h # {} THEN HeapTop(h) ELSE 0]

\* isEarliest with the comparison left out.
isEarliestAlways(e, p) == TRUE

\* isEarliest with < for <=.
isEarliestLT(e, p) == p.Timestamp < e.earliestHeapTime

isEarliest(e, p) == p.Timestamp <= e.earliestHeapTime

pushNext(e, p) == [e EXCEPT !.minTimeHeap = HeapPush(@, p)]

\* The branch the inner loop takes on result r, read as packet p.
innerBranch(e, r, p) ==
  LET v == readNext(r, FALSE, e.previousTimestamp)
  IN  IF v = "eof" THEN "eof"
      ELSE IF v # "ret" THEN "skip"
      ELSE IF isEarliest(e, p) THEN "write"
      ELSE "push"

\* innerStep pushing the packet it has written.
innerStepWriteAndPush(e, b, p, err) ==
  IF b = "write" THEN pushNext(write(e, p, err), p)
  ELSE IF b = "push" THEN pushNext(e, p)
  ELSE e

\* innerStep without the heap.Push before the break.
innerStepNoPush(e, b, p, err) ==
  IF b = "write" THEN write(e, p, err) ELSE e

innerStep(e, b, p, err) ==
  IF b = "write" THEN write(e, p, err)
  ELSE IF b = "push" THEN pushNext(e, p)
  ELSE e

\* innerNext without the break after heap.Push.
innerNextNoBreak(b) == IF b = "eof" THEN "loop" ELSE "inner"

\* innerNext leaving the inner loop when readNext has skipped a record.
innerNextSkipBreaks(b) == IF b = "write" THEN "inner" ELSE "loop"

\* innerNext without the break at io.EOF.
innerNextEofStays(b) == IF b = "push" THEN "loop" ELSE "inner"

\* Where the inner loop goes after branch b: break or continue.
innerNext(b) == IF b \in {"eof", "push"} THEN "loop" ELSE "inner"

\* ------------------------------------------------- the design's algorithm
\* Steps 1 to 3 of the steady-state loop: current = heap.popMin(), emit it,
\* lastAcceptedTimestamp = its timestamp, threshold = heap.peekMinTimestamp()
\* (0 when the heap is now empty).
algPop(a, p) ==
  LET h == HeapPop(a.minTimeHeap, p)
  IN  [a EXCEPT !.minTimeHeap = h,
                !.earliestPacket = p,
                !.written = Append(@, p),
                !.previousTimestamp = p.Timestamp,
                !.earliestHeapTime = IF h # {} THEN HeapTop(h) ELSE 0]

\* Step 4 on result r, read as packet p: end-of-stream, rejected by the
\* anomaly policy, emitted (timestamp <= threshold, or the heap was empty at
\* the pop and there is no upper bound), or pushed.
algBranch(a, r, p) ==
  LET v == readNext(r, FALSE, a.previousTimestamp)
  IN  IF v = "eof" THEN "eof"
      ELSE IF v # "ret" THEN "skip"
      ELSE IF a.minTimeHeap = {} \/ p.Timestamp <= a.earliestHeapTime THEN "write"
      ELSE "push"

algStep(a, b, p) ==
  IF b = "write"
  THEN [a EXCEPT !.written = Append(@, p), !.previousTimestamp = p.Timestamp]
  ELSE IF b = "push" THEN [a EXCEPT !.minTimeHeap = HeapPush(@, p)]
  ELSE a

\* The algorithm has emitted a packet the program has pushed and not yet
\* popped.
algAhead(a, e) == Len(a.written) = Len(e.written) + 1

\* The algorithm when the program (in state e) pops p: it pops p too, unless
\* it is ahead, and then p must be the packet it has emitted already.
algAfterPop(a, e, p) ==
  IF ~a.sync THEN a
  ELSE IF algAhead(a, e)
  THEN [a EXCEPT !.sync = (a.written[Len(a.written)] = p
                           /\ a.earliestPacket.InputFile = p.InputFile)]
  ELSE IF p \in HeapMin(a.minTimeHeap) THEN algPop(a, p)
  ELSE [a EXCEPT !.sync = FALSE]

\* The algorithm when the program (in state e) takes branch b on result r:
\* it takes its own branch, which is the program's, or "write" where the
\* program pushes (the program then has to pop that packet next).
algAfterRead(a, e, b, r, p) ==
  LET ab == algBranch(a, r, p)
  IN  IF ~a.sync THEN a
      ELSE IF /\ ~algAhead(a, e)
              /\ a.earliestPacket.InputFile = e.earliestPacket.InputFile
              /\ (ab = b \/ (ab = "write" /\ b = "push"))
      THEN algStep(a, ab, p)
      ELSE [a EXCEPT !.sync = FALSE]

\* -------------------------------------------------------------------- Init
NewEngine ==
  [minTimeHeap |-> {}, previousTimestamp |-> 0, linkType |-> LinkTypeNull,
   header |-> <<>>, earliestPacket |-> NoPacket, earliestHeapTime |-> 0,
   written |-> <<>>, writeErr |-> FALSE]

\* The algorithm's state when lastAcceptedTimestamp starts at prev.
NewAlgorithm(prev) ==
  [minTimeHeap |-> {}, previousTimestamp |-> prev, linkType |-> LinkTypeNull,
   header |-> <<>>, earliestPacket |-> NoPacket, earliestHeapTime |-> 0,
   written |-> <<>>, sync |-> TRUE]

\* The state when joincap is called in a process whose previousTimestamp
\* is prev.
InitWith(prev) ==
  /\ nFiles \in 0..MaxFiles
  /\ pc = "init"
  /\ fi = 1
  /\ opened = {}
  /\ closes = [f \in Files |-> 0]
  /\ readers = {}
  /\ readerLinkType = [f \in Files |-> LinkTypeNull]
  /\ input = [f \in Files |-> <<>>]
  /\ eof = {}
  /\ staged = {}
  /\ eng = [NewEngine EXCEPT !.previousTimestamp = prev]
  /\ ref = NewEngine
  /\ sync = TRUE
  /\ alg = NewAlgorithm(prev)

\* joincap called in a fresh process.
Init == InitWith(0)

\* joincap called after an earlier call in the same process, as the tests do:
\* previousTimestamp is the timestamp of the last packet that call wrote.
InitRerun == \E prev \in 0..MaxTs : InitWith(prev)

\* ------------------------------------------------------------------ actions
\* os.Open fails: the file is skipped.
OpenFail ==
  /\ pc = "init" /\ fi <= nFiles
  /\ fi' = fi + 1
  /\ UNCHANGED <<nFiles, pc, opened, closes, readers, readerLinkType, input, eof, staged,
                 eng, ref, sync, alg>>

\* os.Open succeeds, pcapgo.NewReader fails: the file is skipped, and its
\* handle is not closed.
NewReaderFail ==
  /\ pc = "init" /\ fi <= nFiles
  /\ opened' = opened \cup {fi}
  /\ fi' = fi + 1
  /\ UNCHANGED <<nFiles, pc, closes, readers, readerLinkType, input, eof, staged,
                 eng, ref, sync, alg>>

\* os.Open and pcapgo.NewReader succeed: the link type is resolved and the
\* first readNext(..., true) starts.  The reference run opens the file only
\* once it is known to stay.
OpenOk(lt) ==
  /\ pc = "init" /\ fi <= nFiles
  /\ opened' = opened \cup {fi}
  /\ readers' = readers \cup {fi}
  /\ readerLinkType' = [readerLinkType EXCEPT ![fi] = lt]
  /\ eng' = setLinkType(eng, lt)
  /\ alg' = setLinkType(alg, lt)
  /\ pc' = "initRead"
  /\ UNCHANGED <<nFiles, fi, closes, input, eof, staged, ref, sync>>

\* One ReadPacketData() of readNext(reader, inputFile, verbose, true) and, when
\* readNext returns, the rest of the init loop's body.
InitRead(r) ==
  /\ pc = "initRead"
  /\ r.kind # "eof" => NReads < MaxReads
  /\ LET v == readNext(r, TRUE, eng.previousTimestamp)
         p == Packet(fi, r)
     IN  /\ input' = IF v = "eof" THEN input
                     ELSE [input EXCEPT
                             ![fi] = Append(@, Logged(r, TRUE, eng.previousTimestamp))]
         /\ eof' = IF v = "eof" THEN eof \cup {fi} ELSE eof
         /\ closes' = IF v = "eof" THEN [closes EXCEPT ![fi] = @ + 1] ELSE closes
         /\ staged' = IF v = "ret" THEN staged \cup {fi} ELSE staged
         /\ eng' = initStep(eng, v, p)
         /\ alg' = IF v = "ret" THEN pushFirst(alg, p) ELSE alg
         /\ sync' = (sync /\ readNext(r, TRUE, ref.previousTimestamp) = v)
         /\ ref' = IF sync' /\ v = "ret"
                   THEN pushFirst(setLinkType(ref, readerLinkType[fi]), p)
                   ELSE ref
         /\ pc' = IF v \in {"eof", "ret"} THEN "init" ELSE "initRead"
         /\ fi' = IF v \in {"eof", "ret"} THEN fi + 1 ELSE fi
  /\ UNCHANGED <<nFiles, opened, readers, readerLinkType>>

\* os.Create of the output file fails: joincap returns the error.
CreateFail ==
  /\ pc = "init" /\ fi > nFiles
  /\ pc' = "failed"
  /\ UNCHANGED <<nFiles, fi, opened, closes, readers, readerLinkType, input, eof, staged,
                 eng, ref, sync, alg>>

\* writer.WriteFileHeader(maxSnaplen, linkType)
WriteFileHeader ==
  /\ pc = "init" /\ fi > nFiles
  /\ eng' = writeFileHeader(eng)
  /\ ref' = writeFileHeader(ref)
  /\ alg' = writeFileHeader(alg)
  /\ pc' = "loop"
  /\ UNCHANGED <<nFiles, fi, opened, closes, readers, readerLinkType, input, eof, staged,
                 sync>>

\* heap.Pop, the write of the earliest packet, earliestHeapTime.
Pop(p, err) ==
  /\ pc = "loop" /\ eng.minTimeHeap # {}
  /\ p \in HeapMin(eng.minTimeHeap)
  /\ eng' = popEarliest(eng, p, err)
  /\ sync' = (sync /\ p \in HeapMin(ref.minTimeHeap))
  /\ ref' = IF sync' THEN popEarliest(ref, p, FALSE) ELSE ref
  /\ alg' = algAfterPop(alg, eng, p)
  /\ pc' = "inner"
  /\ UNCHANGED <<nFiles, fi, opened, closes, readers, readerLinkType, input, eof, staged>>

\* One ReadPacketData() of readNext(..., false) in the inner loop and, when
\* readNext returns, the rest of the inner loop's body.
Read(r, err) ==
  /\ pc = "inner"
  /\ r.kind # "eof" => NReads < MaxReads
  /\ LET f == eng.earliestPacket.InputFile
         p == Packet(f, r)
         b == innerBranch(eng, r, p)
     IN  /\ err => b = "write"
         /\ input' = IF b = "eof" THEN input
                     ELSE [input EXCEPT
                             ![f] = Append(@, Logged(r, FALSE, eng.previousTimestamp))]
         /\ eof' = IF b = "eof" THEN eof \cup {f} ELSE eof
         /\ closes' = IF b = "eof" THEN [closes EXCEPT ![f] = @ + 1] ELSE closes
         /\ eng' = innerStep(eng, b, p, err)
         /\ sync' = (sync /\ ref.earliestPacket = eng.earliestPacket
                          /\ innerBranch(ref, r, p) = b)
         /\ ref' = IF sync' THEN innerStep(ref, b, p, FALSE) ELSE ref
         /\ alg' = algAfterRead(alg, eng, b, r, p)
         /\ pc' = innerNext(b)
  /\ UNCHANGED <<nFiles, fi, opened, readers, readerLinkType, staged>>

\* The heap is empty: joincap returns nil.
Done ==
  /\ pc = "loop" /\ eng.minTimeHeap = {}
  /\ pc' = "done"
  /\ sync' = (sync /\ ref.minTimeHeap = {})
  /\ alg' = [alg EXCEPT !.sync = @ /\ alg.minTimeHeap = {} /\ ~algAhead(alg, eng)]
  /\ UNCHANGED <<nFiles, fi, opened, closes, readers, readerLinkType, input, eof, staged,
                 eng, ref>>

\* The merge of files that all declare Ethernet, every write succeeding.
Next ==
  \/ OpenFail
  \/ NewReaderFail
  \/ OpenOk(LinkTypeEthernet)
  \/ \E r \in Outcomes : InitRead(r)
  \/ CreateFail
  \/ WriteFileHeader
  \/ \E p \in eng.minTimeHeap : Pop(p, FALSE)
  \/ \E r \in Outcomes : Read(r, FALSE)
  \/ Done

Spec == Init /\ [][Next]_vars

\* The merge of files of any link type, whose records all carry timestamp 0.
NextLink ==
  \/ OpenFail
  \/ NewReaderFail
  \/ \E lt \in LinkTypes : OpenOk(lt)
  \/ \E r \in LinkOutcomes : InitRead(r)
  \/ CreateFail
  \/ WriteFileHeader
  \/ \E p \in eng.minTimeHeap : Pop(p, FALSE)
  \/ \E r \in LinkOutcomes : Read(r, FALSE)
  \/ Done

SpecLink == Init /\ [][NextLink]_vars

\* The results of ReadPacketData() on files whose packets carry the earliest
\* or the latest timestamp.
EdgeOutcomes ==
  {EndOfFile, ReadError}
    \cup {[kind |-> "pkt", ts |-> t, len |-> l] : t \in {0, MaxTs}, l \in 0..1}

NextEdge ==
  \/ OpenFail
  \/ NewReaderFail
  \/ OpenOk(LinkTypeEthernet)
  \/ \E r \in EdgeOutcomes : InitRead(r)
  \/ CreateFail
  \/ WriteFileHeader
  \/ \E p \in eng.minTimeHeap : Pop(p, FALSE)
  \/ \E r \in EdgeOutcomes : Read(r, FALSE)
  \/ Done

SpecEdge == Init /\ [][NextEdge]_vars

\* The program is one sequential loop that blocks on nothing but its own
\* reads and writes: while a step is possible, a step is taken.
SpecFair == SpecEdge /\ WF_vars(NextEdge)

\* The results of ReadPacketData() on files whose records all decode and
\* carry a payload.
PacketOutcomes ==
  {EndOfFile} \cup {[kind |-> "pkt", ts |-> t, len |-> 1] : t \in 0..MaxTs}

\* The merge when writer.WritePacket may fail at any packet.
NextWrite ==
  \/ OpenFail
  \/ NewReaderFail
  \/ OpenOk(LinkTypeEthernet)
  \/ \E r \in PacketOutcomes : InitRead(r)
  \/ CreateFail
  \/ WriteFileHeader
  \/ \E p \in eng.minTimeHeap : \E err \in BOOLEAN : Pop(p, err)
  \/ \E r \in PacketOutcomes : \E err \in BOOLEAN : Read(r, err)
  \/ Done

SpecWrite == Init /\ [][NextWrite]_vars

\* The merge of such files in a process that may have merged before.
NextRerun ==
  \/ OpenFail
  \/ NewReaderFail
  \/ OpenOk(LinkTypeEthernet)
  \/ \E r \in PacketOutcomes : InitRead(r)
  \/ CreateFail
  \/ WriteFileHeader
  \/ \E p \in eng.minTimeHeap : Pop(p, FALSE)
  \/ \E r \in PacketOutcomes : Read(r, FALSE)
  \/ Done

SpecRerun == InitRerun /\ [][NextRerun]_vars

\* ------------------------------------------------------------- vocabulary
\* The packet handed to the writer last, and the highest timestamp handed to
\* it, for a non-empty w.
LastWritten(w) == w[Len(w)]

HighestWritten(w) ==
  CHOOSE t \in {w[k].Timestamp : k \in 1..Len(w)} :
    \A k \in 1..Len(w) : w[k].Timestamp <= t

\* w is non-decreasing in timestamp.
Ordered(w) == \A i \in 1..(Len(w) - 1) : w[i].Timestamp <= w[i + 1].Timestamp

\* The packets file f has returned so far are non-decreasing in timestamp.
SortedInput(f) ==
  \A i, j \in 1..Len(input[f]) :
    (i < j /\ input[f][i].kind = "pkt" /\ input[f][j].kind = "pkt")
      => input[f][i].ts <= input[f][j].ts

NoEmptyPayload ==
  \A f \in Files : \A i \in 1..Len(input[f]) :
    input[f][i].kind = "pkt" => input[f][i].len > 0

\* No record was undecodable, empty or rejected by the tolerance rule.
NoAnomaly ==
  \A f \in Files : \A i \in 1..Len(input[f]) : input[f][i].fate = "ret"

\* How often record i of file f was handed to the writer, whether it is in
\* the heap.
Writes(f, i) ==
  Cardinality({k \in 1..Len(eng.written) :
                 eng.written[k].InputFile = f /\ eng.written[k].idx = i})
InHeap(f, i) == \E p \in eng.minTimeHeap : p.InputFile = f /\ p.idx = i
Kept(f, i) == Writes(f, i) > 0 \/ InHeap(f, i)

\* ------------------------------------------------------------------ claims
\* C1: when every input file is non-decreasing in timestamp and no payload
\* is empty, the packets written are non-decreasing in timestamp.
C1_OrderPreserved ==
  ((\A f \in Files : SortedInput(f)) /\ NoEmptyPayload) => Ordered(eng.written)

\* Two sorted files were merged by interleaving them: file, other file, file.
C1_Witness ==
  /\ pc = "done"
  /\ \A f \in Files : SortedInput(f)
  /\ NoEmptyPayload
  /\ Len(eng.written) = 3
  /\ eng.written[1].InputFile = eng.written[3].InputFile
  /\ eng.written[1].InputFile # eng.written[2].InputFile
  /\ eng.written[1].Timestamp < eng.written[2].Timestamp
  /\ eng.written[2].Timestamp < eng.written[3].Timestamp

\* C2: without undecodable, empty or rejected records every record read is
\* written exactly once: while the merge runs a record is either in the heap
\* or written once, and when it is over every file with a reader is at
\* end-of-file, the heap is empty and the output holds as many packets as
\* the files held records.
C2_CountConserved ==
  NoAnomaly =>
    /\ \A f \in Files : \A i \in 1..Len(input[f]) :
         Writes(f, i) + (IF InHeap(f, i) THEN 1 ELSE 0) = 1
    /\ pc = "done" =>
         /\ readers \subseteq eof
         /\ eng.minTimeHeap = {}
         /\ Len(eng.written) = NReads

\* Two files with the same single record were merged into two packets, and a
\* file of two records was merged with a file of one.
C2_Witness ==
  /\ pc = "done"
  /\ NoAnomaly
  /\ nFiles = 2
  /\ \/ /\ Len(input[1]) = 1 /\ Len(input[2]) = 1
        /\ input[1][1].ts = input[2][1].ts
        /\ Len(eng.written) = 2
     \/ /\ Len(input[1]) = 2 /\ Len(input[2]) = 1
        /\ Len(eng.written) = 3

\* C3 as stated: for arbitrary input the packets written are non-decreasing
\* in timestamp.
C3_OutputOrdered == Ordered(eng.written)

\* C3 amended: for arbitrary input each packet written is at most one hour
\* earlier than the packet written just before it.
C3_OrderedWithinTolerance ==
  \A i \in 1..(Len(eng.written) - 1) :
    eng.written[i + 1].Timestamp + oneHour >= eng.written[i].Timestamp

\* A packet was written after a packet with a later timestamp.
C3_Witness ==
  \E i \in 1..(Len(eng.written) - 1) :
    eng.written[i + 1].Timestamp < eng.written[i].Timestamp

\* C4: a packet read in the merge loop with timestamp + oneHour below
\* previousTimestamp (as it was at the read) is neither written nor pushed;
\* a packet read there with timestamp + oneHour >= previousTimestamp is not
\* rejected as late, and is kept unless its payload is empty.
C4_ToleranceRule ==
  \A f \in Files : \A i \in 1..Len(input[f]) :
    LET e == input[f][i]
    IN  (e.kind = "pkt" /\ ~e.init) =>
          /\ e.ts + oneHour < e.prev => ~Kept(f, i)
          /\ e.ts + oneHour >= e.prev =>
               (e.fate # "late" /\ (e.len > 0 => Kept(f, i)))

\* One packet of a file was dropped as more than one hour early, another
\* packet of it that was exactly one hour early was kept.
C4_Witness ==
  \E f \in Files : \E i, j \in 1..Len(input[f]) :
    /\ ~input[f][i].init /\ input[f][i].kind = "pkt"
    /\ input[f][i].ts + oneHour < input[f][i].prev
    /\ ~Kept(f, i)
    /\ ~input[f][j].init /\ input[f][j].kind = "pkt"
    /\ input[f][j].ts + oneHour = input[f][j].prev
    /\ Kept(f, j)

\* C5: no packet with an empty payload is in the heap or was written.
C5_NoEmptyPacket ==
  /\ \A p \in eng.minTimeHeap : p.Data > 0
  /\ \A k \in 1..Len(eng.written) : eng.written[k].Data > 0

\* An empty packet was read as the first record of a file, another in the
\* merge loop, and the run went on to its end.
C5_Witness ==
  /\ pc = "done"
  /\ eng.written # <<>>
  /\ \E f \in Files : \E i \in 1..Len(input[f]) :
       input[f][i].kind = "pkt" /\ input[f][i].len = 0 /\ input[f][i].init
  /\ \E f \in Files : \E i \in 1..Len(input[f]) :
       input[f][i].kind = "pkt" /\ input[f][i].len = 0 /\ ~input[f][i].init

\* C6: the files that cannot be opened, get no reader or end before a first
\* valid record do not stop the run, and the packets written are those of
\* the run on the remaining files: the run on the remaining files takes the
\* same branches and has written the same packets.
C6_SkippedFilesContributeNothing ==
  /\ sync
  /\ ref.written = eng.written
  /\ ref.minTimeHeap = eng.minTimeHeap
  /\ pc = "failed" => fi > nFiles

\* The first file ended before a first valid record, the second file was
\* merged to its end.
C6_Witness ==
  /\ pc = "done"
  /\ 1 \in eof /\ 1 \notin staged
  /\ 2 \in staged
  /\ Len(eng.written) >= 2

\* C7 as stated: the link type of the header is the one all files with a
\* reader declare, or Ethernet when one of them differs from the first.
FirstReader == CHOOSE f \in readers : \A g \in readers : f <= g
C7_HeaderLinkType ==
  (eng.header # <<>> /\ readers # {}) =>
    eng.header =
      << IF \A f \in readers : readerLinkType[f] = readerLinkType[FirstReader]
         THEN readerLinkType[FirstReader]
         ELSE LinkTypeEthernet >>

\* C8 as stated: when some files stay, the link type of the header is the one
\* the run on those files writes, whatever the files dropped at their first
\* read declare.
C8_DroppedFileNoHeaderEffect ==
  (eng.header # <<>> /\ staged # {}) => eng.header = ref.header

\* C9: the heap holds at most one packet per file, none of a file at
\* end-of-file, and no more packets than files that have a reader and are
\* not at end-of-file.
C9_OnePendingPerSource ==
  /\ \A p, q \in eng.minTimeHeap : p.InputFile = q.InputFile => p = q
  /\ \A p \in eng.minTimeHeap : p.InputFile \notin eof
  /\ Cardinality(eng.minTimeHeap) <= Cardinality(readers \ eof)
  /\ Cardinality(readers \ eof) <= nFiles

\* The merge loop pushed a packet back next to the pending packet of the
\* other file.
C9_Witness ==
  /\ pc = "loop"
  /\ eng.written # <<>>
  /\ Cardinality(eng.minTimeHeap) = 2
  /\ \E p \in eng.minTimeHeap : p.idx > 1

\* C10 as stated: no file is closed twice, a file at end-of-file has been
\* closed, and when the run is over every file that was opened has been
\* closed once.
C10_ClosedExactlyOnce ==
  /\ \A f \in Files : closes[f] <= 1
  /\ \A f \in eof : closes[f] = 1
  /\ pc = "done" => \A f \in opened : closes[f] = 1

\* C11: every file returns finitely many records and each read consumes one
\* (also an undecodable or a rejected one), so the run comes to its end: the
\* merge loop is left (or the output file could not be created).  When the
\* merge loop is left the heap is empty and every file that was staged at
\* initialization has returned end-of-file; and a file that has returned
\* end-of-file is never read again.
C11_Terminates ==
  /\ <>(pc \in {"done", "failed"})
  /\ [](pc = "done" => (eng.minTimeHeap = {} /\ staged \subseteq eof))
  /\ [][\A f \in eof : input'[f] = input[f] /\ closes'[f] = closes[f]]_vars

\* The merge loop is left after two staged files were read to end-of-file,
\* one of them past an undecodable or rejected record.
C11_Witness ==
  /\ pc = "done"
  /\ Cardinality(staged) = 2
  /\ staged \subseteq eof
  /\ \E f \in staged : \E i \in 1..Len(input[f]) :
       input[f][i].fate \in {"err", "late", "empty"}

\* C12: a WritePacket error does not end the run, and the run in which
\* writes fail and the run in which no write fails take the same branches
\* and are in the same state throughout: same previousTimestamp, same heap,
\* same file to read next, same threshold, same packets handed to the
\* writer (the two runs share the files' read positions).
C12_WriteErrorIgnored ==
  /\ sync
  /\ ref.previousTimestamp = eng.previousTimestamp
  /\ ref.minTimeHeap = eng.minTimeHeap
  /\ ref.earliestPacket = eng.earliestPacket
  /\ ref.earliestHeapTime = eng.earliestHeapTime
  /\ ref.written = eng.written
  /\ (eng.writeErr /\ pc = "inner") => ENABLED (\E r \in PacketOutcomes : Read(r, FALSE))

\* The last write failed, and after it a packet read from the same file was
\* pushed back next to the other file's pending packet.
C12_Witness ==
  /\ pc = "loop"
  /\ eng.writeErr /\ ~ref.writeErr
  /\ Cardinality(eng.minTimeHeap) = 2

\* C13 as stated: once a packet is written, previousTimestamp is the highest
\* timestamp among the packets written so far.
C13_PrevIsHighest ==
  eng.written # <<>> => eng.previousTimestamp = HighestWritten(eng.written)

\* C13: once a packet is written, previousTimestamp is the timestamp of the
\* packet written last; that is the highest timestamp written so far as
\* long as the written timestamps are non-decreasing.
C13_PrevIsLastWritten ==
  eng.written # <<>> =>
    /\ eng.previousTimestamp = LastWritten(eng.written).Timestamp
    /\ Ordered(eng.written) =>
         eng.previousTimestamp = HighestWritten(eng.written)

\* A packet was written after a packet with a later timestamp, and
\* previousTimestamp is below the highest timestamp written.
C13_Witness ==
  /\ Len(eng.written) >= 2
  /\ ~Ordered(eng.written)
  /\ eng.previousTimestamp = LastWritten(eng.written).Timestamp
  /\ eng.previousTimestamp < HighestWritten(eng.written)

\* C14: no record read at initialization is rejected as late; the first
\* record of a file that decodes and has a payload ends the file's
\* initialization reads, is pushed on the heap, where it stays until the merge
\* loop starts, and is never lost, whatever its timestamp.
C14_InitBypassesTolerance ==
  \A f \in Files : \A i \in 1..Len(input[f]) :
    LET e == input[f][i]
    IN  e.init =>
          /\ e.fate # "late"
          /\ (e.kind = "pkt" /\ e.len > 0) =>
                /\ e.fate = "ret"
                /\ f \in staged
                /\ Kept(f, i)
                /\ pc \in {"init", "initRead"} => InHeap(f, i)
                /\ \A j \in 1..Len(input[f]) : j > i => ~input[f][j].init

\* The first record of a file is more than one hour earlier than the
\* baseline the files before it have left, and is in the heap.
C14_Witness ==
  \E f \in Files : \E i \in 1..Len(input[f]) :
    /\ input[f][i].init
    /\ input[f][i].kind = "pkt"
    /\ input[f][i].prev > 0
    /\ input[f][i].ts + oneHour < input[f][i].prev
    /\ InHeap(f, i)

\* C15: the run that starts with any value in previousTimestamp and the run
\* that starts with 0 take the same branches on the same files, hold the
\* same heap and hand the same packets to the writer; once a packet is
\* written they hold the same previousTimestamp as well.
C15_BaselineIrrelevant ==
  /\ sync
  /\ ref.written = eng.written
  /\ ref.minTimeHeap = eng.minTimeHeap
  /\ eng.written # <<>> => ref.previousTimestamp = eng.previousTimestamp

\* The run started with a previousTimestamp other than 0 (the first read of
\* the first file saw it), the other run with 0; the merge loop has rejected
\* a record as late, has written two packets or more and has ended.
C15_Witness ==
  /\ pc = "done"
  /\ Len(eng.written) >= 2
  /\ \E f \in Files :
       /\ input[f] # <<>>
       /\ input[f][1].prev # 0
       /\ \E g \in Files : \E i \in 1..Len(input[g]) : input[g][i].fate = "late"

\* The record the merge loop has read last from the file of the packet it
\* popped last was skipped: undecodable, late, or empty.
LastReadSkipped ==
  LET f == eng.earliestPacket.InputFile
  IN  /\ f \in Files
      /\ input[f] # <<>>
      /\ ~input[f][Len(input[f])].init
      /\ input[f][Len(input[f])].fate \in {"err", "late", "empty"}

\* C16: a step of the merge loop that reads a record and skips it consumes
\* that one record of the file and nothing else: heap, threshold,
\* previousTimestamp and the packets written are as before, the file is
\* neither closed nor at end-of-file, no other file is read, and the next
\* read is from the same file.
C16_DiscardFrame ==
  [][(pc = "inner" /\ input' # input /\ LastReadSkipped')
       => LET f == eng.earliestPacket.InputFile
          IN  /\ eng' = eng
              /\ pc' = "inner"
              /\ eof' = eof /\ closes' = closes /\ f \notin eof
              /\ Len(input'[f]) = Len(input[f]) + 1
              /\ \A g \in Files \ {f} : input'[g] = input[g]]_vars

\* A record was skipped as late in the merge loop while the other file's
\* packet was pending in the heap.
C16_Witness ==
  /\ pc = "inner"
  /\ LastReadSkipped
  /\ eng.minTimeHeap # {}
  /\ LET f == eng.earliestPacket.InputFile
     IN  input[f][Len(input[f])].fate = "late"

\* C17 as stated: when the heap is empty after the pop, a step of the merge
\* loop that reads a record readNext returns writes it and stays in the
\* inner loop; the heap stays empty.
C17_SoleSourceWrittenDirectly ==
  [][(/\ pc = "inner"
      /\ eng.minTimeHeap = {}
      /\ input' # input
      /\ LET f == eng.earliestPacket.InputFile
         IN  input'[f][Len(input'[f])].fate = "ret")
       => /\ eng'.minTimeHeap = {}
          /\ Len(eng'.written) = Len(eng.written) + 1
          /\ pc' = "inner"]_vars

\* C18: the program and the design's algorithm, side by side on the same
\* files, never part ways.  They have written the same packets and hold the
\* same previousTimestamp and the same heap, except between a push of the
\* program that the algorithm answers by writing (the heap was empty at the
\* pop) and the pop that follows: there the algorithm is one packet ahead,
\* and that packet is the only one in the program's heap, so the program
\* writes it next.  At the end both have written the same sequence.
C18_SameAsAlgorithm ==
  /\ alg.sync
  /\ \/ /\ alg.written = eng.written
        /\ alg.previousTimestamp = eng.previousTimestamp
        /\ alg.minTimeHeap = eng.minTimeHeap
     \/ /\ pc = "loop"
        /\ algAhead(alg, eng)
        /\ SubSeq(alg.written, 1, Len(eng.written)) = eng.written
        /\ alg.minTimeHeap = {}
        /\ eng.minTimeHeap = {LastWritten(alg.written)}
  /\ pc = "done" => alg.written = eng.written

\* After a first write, the program has pushed a packet on the empty heap
\* that the algorithm has written.
C18_Witness ==
  /\ pc = "loop"
  /\ alg.sync
  /\ eng.written # <<>>
  /\ algAhead(alg, eng)

\* C19: whenever the merge loop is about to read from a file, a packet has
\* been written, previousTimestamp is the timestamp of the packet written
\* last, and that packet is of the file to be read.  So each record the
\* merge loop has read was compared with the timestamp of the packet that
\* readNext had returned last from the same file.
C19_PrevIsOfSameSource ==
  /\ pc = "inner" =>
       /\ eng.written # <<>>
       /\ eng.previousTimestamp = LastWritten(eng.written).Timestamp
       /\ LastWritten(eng.written).InputFile = eng.earliestPacket.InputFile
  /\ \A f \in Files : \A i \in 1..Len(input[f]) :
       ~input[f][i].init =>
         \E j \in 1..(i - 1) :
           /\ input[f][j].fate = "ret"
           /\ input[f][j].ts = input[f][i].prev
           /\ \A k \in (j + 1)..(i - 1) : input[f][k].fate # "ret"

\* With the other file's packet pending in the heap, the merge loop has
\* read a record of a file whose packet it had written, and rejected it as
\* late against that packet; the other file's pending packet is earlier.
C19_Witness ==
  /\ pc = "inner"
  /\ LET f == eng.earliestPacket.InputFile
     IN  /\ input[f][Len(input[f])].fate = "late"
         /\ \E q \in eng.minTimeHeap :
              /\ q.InputFile # f
              /\ q.Timestamp <= eng.previousTimestamp

\* C20: of two packets of one file that were written, the one written
\* first was read first; each written packet is a record the file returned,
\* with that record's timestamp.
C20_SourceOrderKept ==
  /\ \A i, j \in 1..Len(eng.written) :
       (i < j /\ eng.written[i].InputFile = eng.written[j].InputFile)
         => eng.written[i].idx < eng.written[j].idx
  /\ \A k \in 1..Len(eng.written) :
       LET w == eng.written[k]
       IN  /\ w.idx \in 1..Len(input[w.InputFile])
           /\ input[w.InputFile][w.idx].ts = w.Timestamp
           /\ input[w.InputFile][w.idx].fate = "ret"

\* Two packets of one file were written in the order of the file, and a
\* packet of the other file was written between them.
C20_Witness ==
  \E i, j, k \in 1..Len(eng.written) :
    /\ i < k /\ k < j
    /\ eng.written[i].InputFile = eng.written[j].InputFile
    /\ eng.written[k].InputFile # eng.written[i].InputFile
    /\ eng.written[i].idx < eng.written[j].idx
====
